---- MODULE Spec2Model ----
(***************************************************************************)
(* Model of the phastats streaming FASTQ pass: parse_fastq_file and its    *)
(* helpers (parser.py), the N50 order statistic (utils.py) and the         *)
(* orchestration in analyze_fastq (core.py).                               *)
(*                                                                         *)
(* Text is modelled as sequences of one-character strings, so that strip,  *)
(* len, ord and count are computed rather than assumed.  Floating-point    *)
(* values (means, percentages) are modelled as exact reduced fractions     *)
(* [n, d]; the source's results agree with them up to float rounding.      *)
(***************************************************************************)
EXTENDS Integers, Sequences, FiniteSets, TLC

VARIABLES
    stream,                  \* the lines of the opened file, as readline() yields them
    pos,                     \* index of the next line readline() returns
    file_open,               \* the handle f of parser.py:52 is open
    chunk_size, quality_threshold, high_quality_threshold, skip_perbase, encoding,
    total_sequences, poor_quality_sequences, total_length, gc_count,
    lengths, gc_contents, per_read_qualities, quality_counts,
    max_position, base_counts_by_position,
    chunk_sequences, chunk_qualities,
    quality_stats, per_base_content,
    filtered_lengths,        \* the local `lengths` of analyze_fastq after filter/subsample
    n50_value, average_length, gc_content,
    n50_input,               \* argument of a direct call of the N50 functions
    n50_plain,               \* value a direct call of compute_n50 returned
    n50_branch_optimized,    \* return statement a direct call of compute_n50_optimized took
    n50_branch_plain,        \* return statement a direct call of compute_n50 took
    analysis_args,           \* min_length, max_length, subsample, skip_n50 of analyze_fastq
    now,                     \* wall clock of the web application, in hours
    cleanup_due,             \* time at which the Timer of schedule_cleanup fires next
    handler,                 \* per request: position in upload_file / api_analyze
    route,                   \* per request: the handler serving it
    upload_mtime,            \* per request: mtime of its file in uploads/, NoFile if absent
    output_dir,              \* per request: its directory in temp/ exists
    started,                 \* per request: time at which its upload was saved
    response,                \* per request: status of the response, 0 before it
    viewed,                  \* per request: what the results page last answered
    pc                       \* position in the pass

vars == << stream, pos, file_open,
           chunk_size, quality_threshold, high_quality_threshold, skip_perbase, encoding,
           total_sequences, poor_quality_sequences, total_length, gc_count,
           lengths, gc_contents, per_read_qualities, quality_counts,
           max_position, base_counts_by_position,
           chunk_sequences, chunk_qualities,
           quality_stats, per_base_content,
           filtered_lengths, n50_value, average_length, gc_content,
           n50_input, n50_plain, n50_branch_optimized, n50_branch_plain, analysis_args,
           now, cleanup_due, handler, route, upload_mtime, output_dir, started, response,
           viewed, pc >>

\* the state of direct calls of the N50 functions besides their argument
n50_call_vars == << n50_plain, n50_branch_optimized, n50_branch_plain >>

\* the state of the web application
web_vars == << now, cleanup_due, handler, route, upload_mtime, output_dir, started,
              response, viewed >>

(***************************************************************************)
(* Bounds of the model.                                                    *)
(***************************************************************************)
MaxRecords == 2      \* complete four-line groups in a stream
MaxChunk == 2        \* chunk_size ranges over 1..MaxChunk
MaxN50Len == 5       \* longest list handed directly to the N50 functions
MaxN50Val == 5       \* largest length in such a list
MaxRequests == 2     \* requests the web application receives
MaxClock == 3        \* hours the wall clock of the web application advances

(***************************************************************************)
(* Arithmetic helpers.                                                     *)
(***************************************************************************)
\* F applied to the value of v, with v evaluated once (a local variable binding)
Bind(v, F(_)) == CHOOSE r \in { F(x) : x \in {v} } : TRUE

\* a maximum that keeps only the latest value
Max_last(a, b) == b

Max(a, b) == IF a >= b THEN a ELSE b

Min(a, b) == IF a <= b THEN a ELSE b

Abs(a) == IF a < 0 THEN -a ELSE a

RECURSIVE GCD(_, _)
GCD(a, b) == IF b = 0 THEN a ELSE GCD(b, a % b)

\* The real number n/d (d # 0) as a reduced fraction with positive denominator.
Rat(n, d) ==
    Bind(<< n, d >>, LAMBDA v :
        LET g == GCD(Abs(v[1]), Abs(v[2]))
            s == IF v[2] < 0 THEN -1 ELSE 1
        IN  [n |-> (s * v[1]) \div g, d |-> (s * v[2]) \div g])

Zero == [n |-> 0, d |-> 1]

RatAdd(x, y) == Rat(x.n * y.d + y.n * x.d, x.d * y.d)

RatLt(x, y) == x.n * y.d < y.n * x.d

RatGe(x, y) == x.n * y.d >= y.n * x.d

RECURSIVE SeqSum(_)
SeqSum(s) == IF s = << >> THEN 0 ELSE s[1] + SeqSum(Tail(s))

RECURSIVE RatSum(_)
RatSum(s) ==
    IF s = << >> THEN Zero
    ELSE Bind(RatSum(Tail(s)), LAMBDA rest : RatAdd(s[1], rest))

(***************************************************************************)
(* Characters and strings.                                                 *)
(***************************************************************************)
\* ord() on the characters that occur in the modelled streams.
Ord(c) ==
    CASE c = "\n" -> 10
      [] c = " "  -> 32
      [] c = "!"  -> 33
      [] c = "+"  -> 43
      [] c = "-"  -> 45
      [] c = "5"  -> 53
      [] c = "@"  -> 64
      [] c = "A"  -> 65
      [] c = "C"  -> 67
      [] c = "G"  -> 71
      [] c = "I"  -> 73
      [] c = "N"  -> 78
      [] c = "T"  -> 84
      [] c = "g"  -> 103
      [] c = "h"  -> 104
      [] c = "r"  -> 114

IsSpace(c) == c \in {" ", "\n"}

RECURSIVE LStrip(_)
LStrip(s) == IF s # << >> /\ IsSpace(s[1]) THEN LStrip(Tail(s)) ELSE s

RECURSIVE RStrip(_)
RStrip(s) ==
    IF s # << >> /\ IsSpace(s[Len(s)]) THEN RStrip(SubSeq(s, 1, Len(s) - 1)) ELSE s

\* the line used as read, without strip()
Strip_omitted(s) == s

\* str.strip()
Strip(s) == RStrip(LStrip(s))

\* str.count(c)
Count(s, c) == Cardinality({i \in 1..Len(s) : s[i] = c})

\* str.upper() on the modelled alphabet
Upper(c) == IF c = "g" THEN "G" ELSE IF c = "h" THEN "H" ELSE IF c = "r" THEN "R" ELSE c

(***************************************************************************)
(* Input streams: up to MaxRecords four-line groups followed by an         *)
(* optional partial trailing record.                                       *)
(***************************************************************************)
Ln(s) == s \o << "\n" >>

ValidGroups ==
    { << Ln(<<"@","r">>), Ln(<<"G","G","C","C","A","T">>), Ln(<<"+">>), Ln(<<"I","I","I","I","h","h">>) >>,
      << Ln(<<"@","r">>), Ln(<<"A","N","g">>), Ln(<<"+">>), Ln(<<"!","5","I">>) >>,
      << Ln(<<"@","r">>), Ln(<< >>), Ln(<<"+">>), Ln(<< >>) >> }

MalformedGroups ==
    { << Ln(<<"r">>), Ln(<<"A","C","G">>), Ln(<<"+">>), Ln(<<"I","I","I">>) >>,
      << Ln(<<"@","r">>), Ln(<<"A","C","G","T">>), Ln(<<"+">>), Ln(<<"!","5">>) >>,
      << Ln(<<"@","r">>), Ln(<<"A","C">>), Ln(<<"-">>), Ln(<<"I","I">>) >> }

\* a group that starts with a whitespace-only line
BlankGroups ==
    { << Ln(<<" ">>), Ln(<<"A">>), Ln(<<"+">>), Ln(<<"I">>) >> }

Groups == ValidGroups \cup MalformedGroups \cup BlankGroups

\* 0..3 leading lines of a record; the three-line tail has no final newline
Tails ==
    { << >>,
      << Ln(<<"@","r">>) >>,
      << Ln(<<"@","r">>), Ln(<<"G","G","C","C","A","T">>) >>,
      << Ln(<<"@","r">>), Ln(<<"G","C">>), <<"+">> >> }

RECURSIVE GroupSeqs(_)
GroupSeqs(n) ==
    IF n = 0 THEN { << >> }
    ELSE LET S == GroupSeqs(n - 1)
         IN  S \cup { s \o g : s \in S, g \in Groups }

InputStreams == { s \o t : s \in GroupSeqs(MaxRecords), t \in Tails }

Encodings == {"phred33", "phred64"}

Thresholds == { <<20, 30>>, <<10, 40>> }

(***************************************************************************)
(* _process_chunk                                                          *)
(***************************************************************************)
NoCounts == [A |-> 0, T |-> 0, G |-> 0, C |-> 0, N |-> 0]

Bases == {"A", "T", "G", "C", "N"}

\* base_counts_by_position[pos] with dict semantics: absent keys are created
WithPos(bc, p) ==
    IF p \in DOMAIN bc THEN bc
    ELSE [q \in (DOMAIN bc) \cup {p} |-> IF q = p THEN NoCounts ELSE bc[q]]

\* a bucket choice that folds lowercase bases into their uppercase column
Bucket_upper(base) ==
    IF Upper(base) \in Bases THEN Upper(base) ELSE "N"

Bucket(base) == IF base \in Bases THEN base ELSE "N"

BumpBase(bc, p, base) ==
    LET b == WithPos(bc, p)
    IN  [b EXCEPT ![p] = [@ EXCEPT ![Bucket(base)] = @ + 1]]

\* the loop over enumerate(seq), from index i (position i - 1) on
RECURSIVE CountBases(_, _, _)
CountBases(bc, seq, i) ==
    Bind(bc, LAMBDA b :
        IF i > Len(seq) THEN b
        ELSE CountBases(BumpBase(b, i - 1, seq[i]), seq, i + 1))

\* quality_counts[score] = quality_counts.get(score, 0) + 1
BumpScore(qc, score) ==
    [s \in (DOMAIN qc) \cup {score} |->
        (IF s \in DOMAIN qc THEN qc[s] ELSE 0) + (IF s = score THEN 1 ELSE 0)]

RECURSIVE CountScores(_, _)
CountScores(qc, scores) ==
    Bind(qc, LAMBDA q :
        IF scores = << >> THEN q
        ELSE CountScores(BumpScore(q, scores[1]), Tail(scores)))

\* the offset of phred33 whatever the encoding
Offset_fixed(enc) == 33

Offset(enc) == IF enc = "phred33" THEN 33 ELSE 64

QualityScores(qual, offset) == [i \in 1..Len(qual) |-> Ord(qual[i]) - offset]

\* a GC count that uppercases the sequence first
SeqGC_anycase(seq) ==
    Cardinality({i \in 1..Len(seq) : Upper(seq[i]) \in {"G", "C"}})

SeqGC(seq) == Count(seq, "G") + Count(seq, "C")

\* np.mean of a non-empty list of integers
Mean(scores) == Rat(SeqSum(scores), Len(scores))

\* a loop body that records a mean of 0 for an empty quality string
ProcessRecord_noskip(acc, seq, qual, offset) ==
    LET seq_len == Len(seq)
        gc == SeqGC(seq)
    IN  Bind(QualityScores(qual, offset), LAMBDA quality_scores :
        [ lengths |-> Append(acc.lengths, seq_len),
          gc_contents |-> Append(acc.gc_contents,
                                 IF seq_len > 0 THEN Rat(gc * 100, seq_len) ELSE Zero),
          chunk_gc_count |-> acc.chunk_gc_count + gc,
          per_read_qualities |->
              Append(acc.per_read_qualities,
                     IF qual # << >> THEN Mean(quality_scores) ELSE Zero),
          quality_counts |-> CountScores(acc.quality_counts, quality_scores),
          base_counts_by_position |-> CountBases(acc.base_counts_by_position, seq, 1) ])

\* the body of the loop of _process_chunk for one (seq, qual) pair
ProcessRecord(acc, seq, qual, offset) ==
    LET seq_len == Len(seq)
        gc == SeqGC(seq)
    IN  Bind(QualityScores(qual, offset), LAMBDA quality_scores :
        [ lengths |-> Append(acc.lengths, seq_len),
          gc_contents |-> Append(acc.gc_contents,
                                 IF seq_len > 0 THEN Rat(gc * 100, seq_len) ELSE Zero),
          chunk_gc_count |-> acc.chunk_gc_count + gc,
          per_read_qualities |->
              IF qual # << >> THEN Append(acc.per_read_qualities, Mean(quality_scores))
              ELSE acc.per_read_qualities,
          quality_counts |->
              IF qual # << >> THEN CountScores(acc.quality_counts, quality_scores)
              ELSE acc.quality_counts,
          base_counts_by_position |-> CountBases(acc.base_counts_by_position, seq, 1) ])

RECURSIVE ProcessPairs(_, _, _, _)
ProcessPairs(acc, seqs, quals, offset) ==
    Bind(<< acc, seqs, quals >>, LAMBDA v :
        IF v[2] = << >> \/ v[3] = << >> THEN v[1]
        ELSE ProcessPairs(ProcessRecord(v[1], v[2][1], v[3][1], offset),
                          Tail(v[2]), Tail(v[3]), offset))

\* a chunk handler that starts the lengths list afresh at each call
ProcessChunk_fresh(seqs, quals, lens, gcs, bc, prq, qc, enc) ==
    ProcessPairs([ lengths |-> << >>, gc_contents |-> gcs, chunk_gc_count |-> 0,
                   per_read_qualities |-> prq, quality_counts |-> qc,
                   base_counts_by_position |-> bc ],
                 seqs, quals, Offset(enc))

\* _process_chunk: the accumulators after the chunk, and the chunk's GC count
ProcessChunk(seqs, quals, lens, gcs, bc, prq, qc, enc) ==
    ProcessPairs([ lengths |-> lens, gc_contents |-> gcs, chunk_gc_count |-> 0,
                   per_read_qualities |-> prq, quality_counts |-> qc,
                   base_counts_by_position |-> bc ],
                 seqs, quals, Offset(enc))

(***************************************************************************)
(* _calculate_quality_stats                                                *)
(***************************************************************************)
\* reads at the threshold counted as low quality
CountLow_inclusive(prq, qt) ==
    Cardinality({i \in 1..Len(prq) : ~RatLt(Rat(qt, 1), prq[i])})

CountLow(prq, qt) == Cardinality({i \in 1..Len(prq) : RatLt(prq[i], Rat(qt, 1))})

\* the comparison with the high threshold turned round
CountHigh_below(prq, hqt) == Cardinality({i \in 1..Len(prq) : RatLt(prq[i], Rat(hqt, 1))})

CountHigh(prq, hqt) == Cardinality({i \in 1..Len(prq) : RatGe(prq[i], Rat(hqt, 1))})

RatDiv(x, k) == Rat(x.n, x.d * k)

\* np.mean of an empty array
NaN == [n |-> 0, d |-> 0]

\* the statistics without the early return for an empty list (parser.py:225-233)
CalculateQualityStats_unguarded(prq, qc, qt, hqt) ==
    [ overall_avg_quality |-> IF prq = << >> THEN NaN ELSE RatDiv(RatSum(prq), Len(prq)),
      avg_per_read_quality |-> IF prq = << >> THEN NaN ELSE RatDiv(RatSum(prq), Len(prq)),
      low_quality_percentage |->
          IF Len(prq) > 0 THEN Rat(CountLow(prq, qt) * 100, Len(prq)) ELSE Zero,
      high_quality_percentage |->
          IF Len(prq) > 0 THEN Rat(CountHigh(prq, hqt) * 100, Len(prq)) ELSE Zero,
      total_bases |-> Len(prq),
      low_quality_bases |-> CountLow(prq, qt),
      quality_counts |-> qc ]

CalculateQualityStats(prq, qc, qt, hqt) ==
    IF prq = << >> THEN
        [ overall_avg_quality |-> Zero,
          avg_per_read_quality |-> Zero,
          low_quality_percentage |-> Zero,
          high_quality_percentage |-> Zero,
          total_bases |-> 0,
          low_quality_bases |-> 0 ]
    ELSE
        LET overall == RatDiv(RatSum(prq), Len(prq))
            low_quality_reads == CountLow(prq, qt)
            high_quality_reads == CountHigh(prq, hqt)
        IN  [ overall_avg_quality |-> overall,
              avg_per_read_quality |-> overall,
              low_quality_percentage |-> Rat(low_quality_reads * 100, Len(prq)),
              high_quality_percentage |-> Rat(high_quality_reads * 100, Len(prq)),
              total_bases |-> Len(prq),
              low_quality_bases |-> low_quality_reads,
              quality_counts |-> qc ]

(***************************************************************************)
(* _finalize_per_base_content: row p + 1 of the result is position p; the  *)
(* fields A, T, G, C are the columns %A, %T, %G, %C.                       *)
(***************************************************************************)
\* the total without the N bucket
TotalAtPos_acgt(c) == c.A + c.T + c.G + c.C

TotalAtPos(c) == c.A + c.T + c.G + c.C + c.N

ZeroRow == [A |-> Zero, T |-> Zero, G |-> Zero, C |-> Zero]

PercentRow(bc, p) ==
    IF p \in DOMAIN bc /\ TotalAtPos(bc[p]) > 0 THEN
        LET total_at_pos == TotalAtPos(bc[p])
        IN  [ A |-> Rat(bc[p].A * 100, total_at_pos),
              T |-> Rat(bc[p].T * 100, total_at_pos),
              G |-> Rat(bc[p].G * 100, total_at_pos),
              C |-> Rat(bc[p].C * 100, total_at_pos) ]
    ELSE ZeroRow

FinalizePerBaseContent(bc, maxpos, total) ==
    [i \in 1..maxpos |-> PercentRow(bc, i - 1)]

(***************************************************************************)
(* utils.py: compute_n50_optimized, calculate_gc_content                   *)
(***************************************************************************)
RECURSIVE Insert(_, _)
Insert(x, s) ==
    IF s = << >> THEN << x >>
    ELSE IF x <= s[1] THEN << x >> \o s
    ELSE << s[1] >> \o Insert(x, Tail(s))

\* np.sort: ascending
RECURSIVE Sort(_)
Sort(s) ==
    IF s = << >> THEN << >>
    ELSE Bind(Sort(Tail(s)), LAMBDA rest : Insert(s[1], rest))

\* a sort left in ascending order
Reverse_none(s) == s

\* [::-1]
Reverse(s) == [i \in 1..Len(s) |-> s[Len(s) + 1 - i]]

\* np.cumsum
CumSum(s) == [i \in 1..Len(s) |-> SeqSum(SubSeq(s, 1, i))]

SetMin(S) == CHOOSE x \in S : \A y \in S : x <= y

\* the threshold test with > in place of >=
compute_n50_strict(ls) ==
    IF ls = << >> THEN 0
    ELSE
        Bind(Reverse(Sort(ls)), LAMBDA sorted_lengths :
        Bind(CumSum(sorted_lengths), LAMBDA cumsum :
        Bind({i \in 1..Len(cumsum) : 2 * cumsum[i] > cumsum[Len(cumsum)]}, LAMBDA n50_index :
            IF n50_index # {} THEN sorted_lengths[SetMin(n50_index)]
            ELSE sorted_lengths[Len(sorted_lengths)])))

\* cumsum >= total_length / 2 is compared without division: 2 * cumsum >= total_length
compute_n50_optimized(ls) ==
    IF ls = << >> THEN 0
    ELSE
        Bind(Reverse(Sort(ls)), LAMBDA sorted_lengths :
        Bind(CumSum(sorted_lengths), LAMBDA cumsum :
        Bind({i \in 1..Len(cumsum) : 2 * cumsum[i] >= cumsum[Len(cumsum)]}, LAMBDA n50_index :
            IF n50_index # {} THEN sorted_lengths[SetMin(n50_index)]
            ELSE sorted_lengths[Len(sorted_lengths)])))

\* which return statement of compute_n50_optimized is taken (utils.py:132-149)
compute_n50_optimized_branch(ls) ==
    IF ls = << >> THEN "empty"
    ELSE
        Bind(CumSum(Reverse(Sort(ls))), LAMBDA cumsum :
            IF {i \in 1..Len(cumsum) : 2 * cumsum[i] >= cumsum[Len(cumsum)]} # {}
            THEN "found" ELSE "fallthrough")

\* the for loop of compute_n50 from index i on; the result is the returned value
\* together with the return statement taken.  cumulative_length >= total_length / 2
\* is compared without division, twice_target being 2 * target_length
RECURSIVE N50Scan(_, _, _, _)
N50Scan(sorted_lengths, twice_target, cumulative_length, i) ==
    IF i > Len(sorted_lengths)
    THEN [value |-> sorted_lengths[Len(sorted_lengths)], branch |-> "fallthrough"]
    ELSE Bind(cumulative_length + sorted_lengths[i], LAMBDA c :
             IF 2 * c >= twice_target
             THEN [value |-> sorted_lengths[i], branch |-> "found"]
             ELSE N50Scan(sorted_lengths, twice_target, c, i + 1))

\* a target computed with integer division
compute_n50_floor(ls) ==
    IF ls = << >> THEN [value |-> 0, branch |-> "empty"]
    ELSE Bind(Reverse(Sort(ls)), LAMBDA sorted_lengths :
             N50Scan(sorted_lengths, 2 * (SeqSum(sorted_lengths) \div 2), 0, 1))

compute_n50(ls) ==
    IF ls = << >> THEN [value |-> 0, branch |-> "empty"]
    ELSE Bind(Reverse(Sort(ls)), LAMBDA sorted_lengths :
             N50Scan(sorted_lengths, SeqSum(sorted_lengths), 0, 1))

calculate_gc_content(gc, total) == IF total > 0 THEN Rat(gc * 100, total) ELSE Zero

(***************************************************************************)
(* parse_fastq_file                                                        *)
(***************************************************************************)
\* f.readline() at line index k: the line, or the empty string at end of file
ReadLine(k) == IF k <= Len(stream) THEN stream[k] ELSE << >>

Advance(k) == Min(pos + k, Len(stream) + 1)

\* no direct call of an N50 function has been made
N50CallIdle ==
    /\ n50_plain = 0
    /\ n50_branch_optimized = "none"
    /\ n50_branch_plain = "none"

\* the defaults of analyze_fastq; None is modelled as 0 (core.py:20-22)
ArgsDefault ==
    analysis_args = [min_length |-> 0, max_length |-> 0, subsample |-> 0,
                     skip_n50 |-> FALSE]

Requests == 1..MaxRequests

NoFile == -1

\* the web application right after start: both folders empty, the first
\* cleanup done and its Timer set for one hour later (app.py:31-65)
WebIdle ==
    /\ now = 0
    /\ cleanup_due = 1
    /\ handler = [r \in Requests |-> "idle"]
    /\ route = [r \in Requests |-> "none"]
    /\ upload_mtime = [r \in Requests |-> NoFile]
    /\ output_dir = [r \in Requests |-> FALSE]
    /\ started = [r \in Requests |-> NoFile]
    /\ response = [r \in Requests |-> 0]
    /\ viewed = [r \in Requests |-> "none"]

Init ==
    /\ stream \in InputStreams
    /\ pos = 1
    /\ file_open = TRUE
    /\ chunk_size \in 1..MaxChunk
    /\ \E t \in Thresholds : quality_threshold = t[1] /\ high_quality_threshold = t[2]
    /\ skip_perbase \in BOOLEAN
    /\ encoding \in Encodings
    /\ total_sequences = 0
    /\ poor_quality_sequences = 0
    /\ total_length = 0
    /\ gc_count = 0
    /\ lengths = << >>
    /\ gc_contents = << >>
    /\ per_read_qualities = << >>
    /\ quality_counts = << >>
    /\ max_position = 0
    /\ base_counts_by_position = << >>
    /\ chunk_sequences = << >>
    /\ chunk_qualities = << >>
    /\ quality_stats = << >>
    /\ per_base_content = << >>
    /\ filtered_lengths = << >>
    /\ n50_value = 0
    /\ average_length = Zero
    /\ gc_content = Zero
    /\ n50_input = << >>
    /\ N50CallIdle
    /\ ArgsDefault
    /\ WebIdle
    /\ pc = "reading"

\* a dispatch that assigns the chunk's GC count instead of adding it
Dispatch_assign(seqs, quals) ==
    \E r \in { ProcessChunk(seqs, quals, lengths, gc_contents, base_counts_by_position,
                           per_read_qualities, quality_counts, encoding) } :
        /\ lengths' = r.lengths
        /\ gc_contents' = r.gc_contents
        /\ base_counts_by_position' = r.base_counts_by_position
        /\ per_read_qualities' = r.per_read_qualities
        /\ quality_counts' = r.quality_counts
        /\ gc_count' = r.chunk_gc_count

\* the dispatch of the chunk buffer to _process_chunk (parser.py:64-66, 92-94)
Dispatch(seqs, quals) ==
    \E r \in { ProcessChunk(seqs, quals, lengths, gc_contents, base_counts_by_position,
                           per_read_qualities, quality_counts, encoding) } :
        /\ lengths' = r.lengths
        /\ gc_contents' = r.gc_contents
        /\ base_counts_by_position' = r.base_counts_by_position
        /\ per_read_qualities' = r.per_read_qualities
        /\ quality_counts' = r.quality_counts
        /\ gc_count' = gc_count + r.chunk_gc_count

NoDispatch ==
    UNCHANGED << lengths, gc_contents, base_counts_by_position, per_read_qualities,
                 quality_counts, gc_count >>

\* an iteration that dispatches only once the buffer exceeds chunk_size
ReadRecord_late ==
    /\ pc = "reading"
    /\ Strip(ReadLine(pos)) # << >>
    /\ \E sequence \in {Strip(ReadLine(pos + 1))}, quality \in {Strip(ReadLine(pos + 3))} :
       LET seqs == Append(chunk_sequences, sequence)
           quals == Append(chunk_qualities, quality)
           seq_len == Len(sequence)
       IN  /\ total_sequences' = total_sequences + 1
           /\ total_length' = total_length + seq_len
           /\ max_position' = IF ~skip_perbase THEN Max(max_position, seq_len)
                              ELSE max_position
           /\ IF Len(seqs) > chunk_size
              THEN /\ Dispatch(seqs, quals)
                   /\ chunk_sequences' = << >>
                   /\ chunk_qualities' = << >>
              ELSE /\ NoDispatch
                   /\ chunk_sequences' = seqs
                   /\ chunk_qualities' = quals
    /\ pos' = Advance(4)
    /\ UNCHANGED << stream, file_open, chunk_size, quality_threshold,
                    high_quality_threshold, skip_perbase, encoding,
                    poor_quality_sequences, quality_stats, per_base_content,
                    filtered_lengths, n50_value, average_length, gc_content,
                    n50_input, n50_call_vars,
                    analysis_args, web_vars, pc >>

\* one iteration of the read loop with a non-empty identifier line (parser.py:58-96)
ReadRecord ==
    /\ pc = "reading"
    /\ Strip(ReadLine(pos)) # << >>
    /\ \E sequence \in {Strip(ReadLine(pos + 1))}, quality \in {Strip(ReadLine(pos + 3))} :
       LET seqs == Append(chunk_sequences, sequence)
           quals == Append(chunk_qualities, quality)
           seq_len == Len(sequence)
       IN  /\ total_sequences' = total_sequences + 1
           /\ total_length' = total_length + seq_len
           /\ max_position' = IF ~skip_perbase THEN Max(max_position, seq_len)
                              ELSE max_position
           /\ IF Len(seqs) >= chunk_size
              THEN /\ Dispatch(seqs, quals)
                   /\ chunk_sequences' = << >>
                   /\ chunk_qualities' = << >>
              ELSE /\ NoDispatch
                   /\ chunk_sequences' = seqs
                   /\ chunk_qualities' = quals
    /\ pos' = Advance(4)
    /\ UNCHANGED << stream, file_open, chunk_size, quality_threshold,
                    high_quality_threshold, skip_perbase, encoding,
                    poor_quality_sequences, quality_stats, per_base_content,
                    filtered_lengths, n50_value, average_length, gc_content,
                    n50_input, n50_call_vars,
                    analysis_args, web_vars, pc >>

\* the iteration that reads an empty identifier: final dispatch, break, and the
\* finally clause closing the file (parser.py:60-67, 98-99)
EndOfStream ==
    /\ pc = "reading"
    /\ Strip(ReadLine(pos)) = << >>
    /\ IF chunk_sequences # << >>
       THEN Dispatch(chunk_sequences, chunk_qualities)
       ELSE NoDispatch
    /\ pos' = Advance(1)
    /\ file_open' = FALSE
    /\ pc' = "closed"
    /\ UNCHANGED << stream, chunk_size, quality_threshold, high_quality_threshold,
                    skip_perbase, encoding, total_sequences, poor_quality_sequences,
                    total_length, max_position, chunk_sequences, chunk_qualities,
                    quality_stats, per_base_content, filtered_lengths, n50_value,
                    average_length, gc_content, n50_input, n50_call_vars,
                    analysis_args, web_vars >>

\* quality statistics, per-base table and return (parser.py:101-119)
Finalize ==
    /\ pc = "closed"
    /\ quality_stats' = CalculateQualityStats(per_read_qualities, quality_counts,
                                              quality_threshold, high_quality_threshold)
    /\ per_base_content' =
          IF ~skip_perbase /\ DOMAIN base_counts_by_position # {}
          THEN FinalizePerBaseContent(base_counts_by_position, max_position,
                                      total_sequences)
          ELSE << >>
    /\ pc' = "parsed"
    /\ UNCHANGED << stream, pos, file_open, chunk_size, quality_threshold,
                    high_quality_threshold, skip_perbase, encoding, total_sequences,
                    poor_quality_sequences, total_length, gc_count, lengths, gc_contents,
                    per_read_qualities, quality_counts, max_position,
                    base_counts_by_position, chunk_sequences, chunk_qualities,
                    filtered_lengths, n50_value, average_length, gc_content, n50_input, n50_call_vars,
                    analysis_args, web_vars >>

(***************************************************************************)
(* analyze_fastq after the parse (core.py:83-169).  max_length and         *)
(* subsample are None or an integer; None and 0 are both falsy in the      *)
(* tests of lines 94, 98 and 105 and are modelled as 0.                    *)
(***************************************************************************)
MinLengths == {0, 3}

MaxLengths == {0, 4}

Subsamples == {0, 1}

FilterLengths(ls, min_length, max_length) ==
    LET AtLeast(l) == l >= min_length
        AtMost(l) == l <= max_length
        a == IF min_length > 0 THEN SelectSeq(ls, AtLeast) ELSE ls
        b == IF max_length # 0 THEN SelectSeq(a, AtMost) ELSE a
    IN  IF min_length > 0 \/ max_length # 0 THEN b ELSE ls

\* random.sample(ls, k): k elements at distinct positions, in any order
Samples(ls, k) ==
    { [i \in 1..k |-> ls[f[i]]] :
        f \in {g \in [1..k -> 1..Len(ls)] : \A i, j \in 1..k : i # j => g[i] # g[j]} }

\* the average taken over the filtered lengths
Analyze_filtered ==
    /\ pc = "parsed"
    /\ \E min_length \in MinLengths, max_length \in MaxLengths,
          subsample \in Subsamples, skip_n50 \in BOOLEAN :
         \E filtered \in {FilterLengths(lengths, min_length, max_length)} :
             /\ IF subsample # 0 /\ subsample < Len(filtered)
                THEN filtered_lengths' \in Samples(filtered, subsample)
                ELSE filtered_lengths' = filtered
             /\ n50_value' = IF skip_n50 THEN 0
                             ELSE compute_n50_optimized(filtered_lengths')
             /\ analysis_args' = [min_length |-> min_length, max_length |-> max_length,
                                  subsample |-> subsample, skip_n50 |-> skip_n50]
    /\ average_length' = IF filtered_lengths' # << >>
                         THEN Rat(SeqSum(filtered_lengths'), Len(filtered_lengths'))
                         ELSE Zero
    /\ gc_content' = calculate_gc_content(gc_count, total_length)
    /\ pc' = "done"
    /\ UNCHANGED << stream, pos, file_open, chunk_size, quality_threshold,
                    high_quality_threshold, skip_perbase, encoding, total_sequences,
                    poor_quality_sequences, total_length, gc_count, lengths, gc_contents,
                    per_read_qualities, quality_counts, max_position,
                    base_counts_by_position, chunk_sequences, chunk_qualities,
                    quality_stats, per_base_content, n50_input, n50_call_vars,
                    web_vars >>

Analyze ==
    /\ pc = "parsed"
    /\ \E min_length \in MinLengths, max_length \in MaxLengths,
          subsample \in Subsamples, skip_n50 \in BOOLEAN :
         \E filtered \in {FilterLengths(lengths, min_length, max_length)} :
             /\ IF subsample # 0 /\ subsample < Len(filtered)
                THEN filtered_lengths' \in Samples(filtered, subsample)
                ELSE filtered_lengths' = filtered
             /\ n50_value' = IF skip_n50 THEN 0
                             ELSE compute_n50_optimized(filtered_lengths')
             /\ analysis_args' = [min_length |-> min_length, max_length |-> max_length,
                                  subsample |-> subsample, skip_n50 |-> skip_n50]
    /\ average_length' = IF total_sequences > 0
                         THEN Rat(total_length, total_sequences) ELSE Zero
    /\ gc_content' = calculate_gc_content(gc_count, total_length)
    /\ pc' = "done"
    /\ UNCHANGED << stream, pos, file_open, chunk_size, quality_threshold,
                    high_quality_threshold, skip_perbase, encoding, total_sequences,
                    poor_quality_sequences, total_length, gc_count, lengths, gc_contents,
                    per_read_qualities, quality_counts, max_position,
                    base_counts_by_position, chunk_sequences, chunk_qualities,
                    quality_stats, per_base_content, n50_input, n50_call_vars,
                    web_vars >>

Next == ReadRecord \/ EndOfStream \/ Finalize \/ Analyze

Spec == Init /\ [][Next]_vars

\* a direct call of parse_fastq_file, which runs sequentially to its return
NextParse == ReadRecord \/ EndOfStream \/ Finalize

FairSpec == Init /\ [][NextParse]_vars /\ WF_vars(NextParse)

(***************************************************************************)
(* Entry paths.  Before a pass starts the configuration comes from the     *)
(* command line (cli.py main), from the upload form (app.py upload_file),  *)
(* from the JSON body of the API (app.py api_analyze) or from the          *)
(* arguments of a direct call of analyze_fastq / parse_fastq_file.  pc is  *)
(* "entry" before the handler runs, "rejected" when the handler refuses    *)
(* the configuration without opening the file, and "raised" when an        *)
(* exception leaves the pass.                                              *)
(***************************************************************************)
DefaultChunk == 10000

\* one complete group at most, then an optional partial record
EntryStreams == { s \o t : s \in GroupSeqs(1), t \in Tails }

EntryThresholds == Thresholds \cup { <<30, 20>>, <<30, 30>> }

EntryEncodings == Encodings \cup {"solexa"}

EntryChunkSizes == {-1} \cup (1..MaxChunk) \cup {DefaultChunk}

InitEntry ==
    /\ stream \in EntryStreams
    /\ pos = 1
    /\ file_open = FALSE
    /\ chunk_size = DefaultChunk
    /\ quality_threshold = 20
    /\ high_quality_threshold = 30
    /\ skip_perbase = FALSE
    /\ encoding = "phred33"
    /\ total_sequences = 0
    /\ poor_quality_sequences = 0
    /\ total_length = 0
    /\ gc_count = 0
    /\ lengths = << >>
    /\ gc_contents = << >>
    /\ per_read_qualities = << >>
    /\ quality_counts = << >>
    /\ max_position = 0
    /\ base_counts_by_position = << >>
    /\ chunk_sequences = << >>
    /\ chunk_qualities = << >>
    /\ quality_stats = << >>
    /\ per_base_content = << >>
    /\ filtered_lengths = << >>
    /\ n50_value = 0
    /\ average_length = Zero
    /\ gc_content = Zero
    /\ n50_input = << >>
    /\ N50CallIdle
    /\ ArgsDefault
    /\ WebIdle
    /\ pc = "entry"

\* the arguments as they reach the handler
Configure(qt, hqt, sp, enc, cs) ==
    /\ quality_threshold' = qt
    /\ high_quality_threshold' = hqt
    /\ skip_perbase' = sp
    /\ encoding' = enc
    /\ chunk_size' = cs

\* the handler ends with an error before open_fastq_file is called
Reject ==
    /\ file_open' = FALSE
    /\ pc' = "rejected"

\* parse_fastq_file initialises its accumulators and opens the file
\* (parser.py:34-56)
OpenFile ==
    /\ file_open' = TRUE
    /\ pc' = "reading"

EntryUnchanged ==
    UNCHANGED << stream, pos, total_sequences, poor_quality_sequences, total_length,
                 gc_count, lengths, gc_contents, per_read_qualities, quality_counts,
                 max_position, base_counts_by_position, chunk_sequences,
                 chunk_qualities, quality_stats, per_base_content, filtered_lengths,
                 n50_value, average_length, gc_content, n50_input, n50_call_vars,
                    analysis_args, web_vars >>

\* cli.py main: parse_args refuses an --encoding outside its choices (cli.py:93),
\* validate_arguments refuses quality_threshold >= high_quality_threshold
\* (cli.py:114-115); --chunk-size is any integer and is not examined
CliMain ==
    /\ pc = "entry"
    /\ \E t \in EntryThresholds, sp \in BOOLEAN, enc \in EntryEncodings,
          cs \in EntryChunkSizes :
          /\ Configure(t[1], t[2], sp, enc, cs)
          /\ IF enc \notin {"phred33", "phred64"} \/ t[1] >= t[2]
             THEN Reject
             ELSE OpenFile
    /\ EntryUnchanged

\* app.py upload_file: the four form fields are handed to analyze_fastq as they
\* are; chunk_size keeps its default
UploadFile ==
    /\ pc = "entry"
    /\ \E t \in EntryThresholds, sp \in BOOLEAN, enc \in EntryEncodings :
          Configure(t[1], t[2], sp, enc, DefaultChunk)
    /\ OpenFile
    /\ EntryUnchanged

\* app.py api_analyze: the request carries the file as multipart form data, so
\* request.get_json() on it yields None in Flask 2.0 (the four parameters take
\* their defaults) and raises in later versions of the range setup.py allows
\* (the handler answers 500 without calling analyze_fastq)
ApiAnalyze ==
    /\ pc = "entry"
    /\ Configure(20, 30, FALSE, "phred33", DefaultChunk)
    /\ \/ OpenFile
       \/ Reject
    /\ EntryUnchanged

\* a direct call of analyze_fastq or parse_fastq_file: no argument is examined
\* before the file is opened
DirectCall ==
    /\ pc = "entry"
    /\ \E t \in EntryThresholds, sp \in BOOLEAN, enc \in EntryEncodings,
          cs \in EntryChunkSizes :
          Configure(t[1], t[2], sp, enc, cs)
    /\ OpenFile
    /\ EntryUnchanged

FailUnchanged ==
    UNCHANGED << stream, pos, chunk_size, quality_threshold, high_quality_threshold,
                 skip_perbase, encoding, poor_quality_sequences, quality_stats,
                 per_base_content, filtered_lengths, n50_value, average_length,
                 gc_content, n50_input, n50_call_vars,
                    analysis_args, web_vars >>

\* a read error that leaves the handle open
ReadFails_leak ==
    /\ pc = "reading"
    /\ pc' = "raised"
    /\ UNCHANGED file_open
    /\ UNCHANGED << total_sequences, total_length, max_position, chunk_sequences,
                    chunk_qualities >>
    /\ NoDispatch
    /\ FailUnchanged

\* readline raises (a decoding or decompression error) on the identifier line:
\* the finally clause closes the file and the exception leaves the pass
\* (parser.py:59-60, 98-99)
ReadFails ==
    /\ pc = "reading"
    /\ pc' = "raised"
    /\ file_open' = FALSE
    /\ UNCHANGED << total_sequences, total_length, max_position, chunk_sequences,
                    chunk_qualities >>
    /\ NoDispatch
    /\ FailUnchanged

\* _process_chunk raises while it handles record j of a full chunk: the records
\* before j are already in the accumulators, the chunk's GC count is never added,
\* the buffers are not cleared, and the finally clause closes the file
\* (parser.py:90-99)
ChunkFails ==
    /\ pc = "reading"
    /\ Strip(ReadLine(pos)) # << >>
    /\ \E sequence \in {Strip(ReadLine(pos + 1))}, quality \in {Strip(ReadLine(pos + 3))} :
       \E seqs \in {Append(chunk_sequences, sequence)},
          quals \in {Append(chunk_qualities, quality)} :
          /\ Len(seqs) >= chunk_size
          /\ total_sequences' = total_sequences + 1
          /\ total_length' = total_length + Len(sequence)
          /\ max_position' = IF ~skip_perbase THEN Max(max_position, Len(sequence))
                             ELSE max_position
          /\ chunk_sequences' = seqs
          /\ chunk_qualities' = quals
          /\ \E j \in 1..Len(seqs) :
             \E r \in { ProcessChunk(SubSeq(seqs, 1, j - 1), SubSeq(quals, 1, j - 1),
                                     lengths, gc_contents, base_counts_by_position,
                                     per_read_qualities, quality_counts, encoding) } :
                /\ lengths' = r.lengths
                /\ gc_contents' = r.gc_contents
                /\ base_counts_by_position' = r.base_counts_by_position
                /\ per_read_qualities' = r.per_read_qualities
                /\ quality_counts' = r.quality_counts
                /\ gc_count' = gc_count
    /\ pc' = "raised"
    /\ file_open' = FALSE
    /\ UNCHANGED << stream, chunk_size, quality_threshold, high_quality_threshold,
                    skip_perbase, encoding, poor_quality_sequences, quality_stats,
                    per_base_content, filtered_lengths, n50_value, average_length,
                    gc_content, n50_input, n50_call_vars,
                    analysis_args, web_vars >>
    /\ pos' = Advance(4)

NextEntry ==
    \/ CliMain \/ UploadFile \/ ApiAnalyze \/ DirectCall
    \/ ReadRecord \/ EndOfStream \/ ReadFails \/ ChunkFails
    \/ Finalize \/ Analyze

SpecEntry == InitEntry /\ [][NextEntry]_vars

(***************************************************************************)
(* Direct calls of the N50 function on arbitrary bounded lists.            *)
(***************************************************************************)
N50Inputs == UNION { [1..k -> 0..MaxN50Val] : k \in 0..MaxN50Len }

InitN50 ==
    /\ stream = << >>
    /\ pos = 1
    /\ file_open = FALSE
    /\ chunk_size = 1
    /\ quality_threshold = 20
    /\ high_quality_threshold = 30
    /\ skip_perbase = FALSE
    /\ encoding = "phred33"
    /\ total_sequences = 0
    /\ poor_quality_sequences = 0
    /\ total_length = 0
    /\ gc_count = 0
    /\ lengths = << >>
    /\ gc_contents = << >>
    /\ per_read_qualities = << >>
    /\ quality_counts = << >>
    /\ max_position = 0
    /\ base_counts_by_position = << >>
    /\ chunk_sequences = << >>
    /\ chunk_qualities = << >>
    /\ quality_stats = << >>
    /\ per_base_content = << >>
    /\ filtered_lengths = << >>
    /\ n50_value = 0
    /\ average_length = Zero
    /\ gc_content = Zero
    /\ n50_input \in N50Inputs
    /\ N50CallIdle
    /\ ArgsDefault
    /\ WebIdle
    /\ pc = "n50_call"

CallN50 ==
    /\ pc = "n50_call"
    /\ n50_value' = compute_n50_optimized(n50_input)
    /\ n50_branch_optimized' = compute_n50_optimized_branch(n50_input)
    /\ pc' = "n50_done"
    /\ UNCHANGED << stream, pos, file_open, chunk_size, quality_threshold,
                    high_quality_threshold, skip_perbase, encoding, total_sequences,
                    poor_quality_sequences, total_length, gc_count, lengths, gc_contents,
                    per_read_qualities, quality_counts, max_position,
                    base_counts_by_position, chunk_sequences, chunk_qualities,
                    quality_stats, per_base_content, filtered_lengths,
                    average_length, gc_content, n50_input, n50_plain, n50_branch_plain,
                    analysis_args, web_vars >>

\* the same list handed to compute_n50
CallN50Plain ==
    /\ pc = "n50_done"
    /\ \E r \in { compute_n50(n50_input) } :
          /\ n50_plain' = r.value
          /\ n50_branch_plain' = r.branch
    /\ pc' = "n50_both"
    /\ UNCHANGED << stream, pos, file_open, chunk_size, quality_threshold,
                    high_quality_threshold, skip_perbase, encoding, total_sequences,
                    poor_quality_sequences, total_length, gc_count, lengths, gc_contents,
                    per_read_qualities, quality_counts, max_position,
                    base_counts_by_position, chunk_sequences, chunk_qualities,
                    quality_stats, per_base_content, filtered_lengths, n50_value,
                    average_length, gc_content, n50_input, n50_branch_optimized,
                    analysis_args, web_vars >>

NextN50 == CallN50 \/ CallN50Plain

SpecN50 == InitN50 /\ [][NextN50]_vars

(***************************************************************************)
(* utils.py: validate_fastq_record (not called by parse_fastq_file)        *)
(***************************************************************************)
ValidBases == {"A", "T", "C", "G", "N", "R", "Y", "S", "W", "K", "M", "B", "D", "H", "V"}

validate_fastq_record(identifier, sequence, plus, quality) ==
    /\ identifier # << >> /\ identifier[1] = "@"
    /\ plus # << >> /\ plus[1] = "+"
    /\ Len(sequence) = Len(quality)
    /\ \A i \in 1..Len(sequence) : Upper(sequence[i]) \in ValidBases

(***************************************************************************)
(* The web application (app.py).  Requests are served concurrently with    *)
(* the Timer thread of schedule_cleanup, so a handler is split where the   *)
(* cleanup can run in between: after the upload is saved and the output    *)
(* directory created, and after analyze_fastq has returned.  Time is       *)
(* counted in hours; the Timer fires one hour after the previous cleanup.  *)
(***************************************************************************)
Routes == {"upload", "api"}

InitWeb ==
    /\ stream = << >>
    /\ pos = 1
    /\ file_open = FALSE
    /\ chunk_size = DefaultChunk
    /\ quality_threshold = 20
    /\ high_quality_threshold = 30
    /\ skip_perbase = FALSE
    /\ encoding = "phred33"
    /\ total_sequences = 0
    /\ poor_quality_sequences = 0
    /\ total_length = 0
    /\ gc_count = 0
    /\ lengths = << >>
    /\ gc_contents = << >>
    /\ per_read_qualities = << >>
    /\ quality_counts = << >>
    /\ max_position = 0
    /\ base_counts_by_position = << >>
    /\ chunk_sequences = << >>
    /\ chunk_qualities = << >>
    /\ quality_stats = << >>
    /\ per_base_content = << >>
    /\ filtered_lengths = << >>
    /\ n50_value = 0
    /\ average_length = Zero
    /\ gc_content = Zero
    /\ n50_input = << >>
    /\ N50CallIdle
    /\ ArgsDefault
    /\ WebIdle
    /\ pc = "serving"

PassUnchanged ==
    UNCHANGED << stream, pos, file_open, chunk_size, quality_threshold,
                 high_quality_threshold, skip_perbase, encoding, total_sequences,
                 poor_quality_sequences, total_length, gc_count, lengths, gc_contents,
                 per_read_qualities, quality_counts, max_position,
                 base_counts_by_position, chunk_sequences, chunk_qualities,
                 quality_stats, per_base_content, filtered_lengths, n50_value,
                 average_length, gc_content, n50_input, n50_call_vars, analysis_args,
                 pc >>

\* a request without a file, or with a file name of another type, is answered
\* 400 before anything is saved (app.py:75-83, 235-240)
BadRequest(r) ==
    /\ handler[r] = "idle"
    /\ \E rt \in Routes : route' = [route EXCEPT ![r] = rt]
    /\ handler' = [handler EXCEPT ![r] = "returned"]
    /\ response' = [response EXCEPT ![r] = 400]
    /\ UNCHANGED << now, cleanup_due, upload_mtime, output_dir, started, viewed >>
    /\ PassUnchanged

\* file.save(upload_path) and os.makedirs(output_dir) (app.py:87-96, 244-251)
SaveUpload(r) ==
    /\ handler[r] = "idle"
    /\ \E rt \in Routes : route' = [route EXCEPT ![r] = rt]
    /\ upload_mtime' = [upload_mtime EXCEPT ![r] = now]
    /\ output_dir' = [output_dir EXCEPT ![r] = TRUE]
    /\ started' = [started EXCEPT ![r] = now]
    /\ handler' = [handler EXCEPT ![r] = "saved"]
    /\ UNCHANGED << now, cleanup_due, response, viewed >>
    /\ PassUnchanged

\* analyze_fastq returns: it has created the output directory if it was
\* missing and written into it (core.py:52-55; app.py:104-113, 260-269)
AnalysisSucceeds(r) ==
    /\ handler[r] = "saved"
    /\ output_dir' = [output_dir EXCEPT ![r] = TRUE]
    /\ handler' = [handler EXCEPT ![r] = "analyzed"]
    /\ UNCHANGED << now, cleanup_due, route, upload_mtime, started, response, viewed >>
    /\ PassUnchanged

\* the except branch: what is left of the upload and of the output directory
\* is removed and the answer is 500 (app.py:125-132, 286-293)
OnError(r) ==
    /\ upload_mtime' = [upload_mtime EXCEPT ![r] = NoFile]
    /\ output_dir' = [output_dir EXCEPT ![r] = FALSE]
    /\ response' = [response EXCEPT ![r] = 500]
    /\ handler' = [handler EXCEPT ![r] = "returned"]

\* analyze_fastq, or a statement before it, raises
AnalysisRaises(r) ==
    /\ handler[r] = "saved"
    /\ OnError(r)
    /\ UNCHANGED << now, cleanup_due, route, started, viewed >>
    /\ PassUnchanged

\* os.remove(upload_path) and the success response; os.remove raises when the
\* file is gone, which leads to the except branch (app.py:115-123, 271-284)
RemoveUploadAndReturn(r) ==
    /\ handler[r] = "analyzed"
    /\ IF upload_mtime[r] # NoFile
       THEN /\ upload_mtime' = [upload_mtime EXCEPT ![r] = NoFile]
            /\ response' = [response EXCEPT ![r] = 200]
            /\ handler' = [handler EXCEPT ![r] = "returned"]
            /\ UNCHANGED output_dir
       ELSE OnError(r)
    /\ UNCHANGED << now, cleanup_due, route, started, viewed >>
    /\ PassUnchanged

\* the results page of a request that has been answered (app.py:134-141)
Results(r) ==
    /\ handler[r] = "returned"
    /\ viewed' = [viewed EXCEPT ![r] = IF output_dir[r] THEN "shown" ELSE "expired"]
    /\ UNCHANGED << now, cleanup_due, handler, route, upload_mtime, output_dir, started,
                    response >>
    /\ PassUnchanged

\* cleanup_old_files when the Timer fires: a file is removed when its mtime
\* is before now - 2 hours, a directory is removed whatever its age; then
\* the next Timer is started (app.py:39-65)
CleanupOldFiles ==
    /\ now = cleanup_due
    /\ upload_mtime' = [r \in Requests |->
                           IF upload_mtime[r] # NoFile /\ upload_mtime[r] < now - 2
                           THEN NoFile ELSE upload_mtime[r]]
    /\ output_dir' = [r \in Requests |-> FALSE]
    /\ cleanup_due' = now + 1
    /\ UNCHANGED << now, handler, route, started, response, viewed >>
    /\ PassUnchanged

\* an hour passes; the Timer fires before time goes past its due hour
Tick ==
    /\ now < MaxClock
    /\ now < cleanup_due
    /\ now' = now + 1
    /\ UNCHANGED << cleanup_due, handler, route, upload_mtime, output_dir, started,
                    response, viewed >>
    /\ PassUnchanged

NextWeb ==
    \/ \E r \in Requests :
          \/ BadRequest(r)
          \/ SaveUpload(r)
          \/ AnalysisSucceeds(r)
          \/ AnalysisRaises(r)
          \/ RemoveUploadAndReturn(r)
          \/ Results(r)
    \/ CleanupOldFiles
    \/ Tick

SpecWeb == InitWeb /\ [][NextWeb]_vars

(***************************************************************************)
(* What the stream holds, stated on the stream itself.                     *)
(***************************************************************************)
Whitespace == {" ", "\n"}

\* line j (1..4) of the k-th four-line group, without surrounding whitespace;
\* empty when the stream has no such line
GroupLine(k, j) ==
    LET idx == 4 * (k - 1) + j
        raw == IF idx <= Len(stream) THEN stream[idx] ELSE << >>
        IsText(c) == c \notin Whitespace
    IN  SelectSeq(raw, IsText)

MaxGroups == Len(stream) \div 4 + 1

\* number of four-line groups in front of the first group whose first line is
\* blank or absent
NumRead ==
    CHOOSE k \in 0..MaxGroups :
        /\ GroupLine(k + 1, 1) = << >>
        /\ \A j \in 1..k : GroupLine(j, 1) # << >>

ReadSeqs == [k \in 1..NumRead |-> GroupLine(k, 2)]

ReadQuals == [k \in 1..NumRead |-> GroupLine(k, 4)]

\* the accumulators after all records read are processed as one single chunk
OneChunk == ProcessChunk(ReadSeqs, ReadQuals, << >>, << >>, << >>, << >>, << >>, encoding)

(***************************************************************************)
(* C1  Chunk-size invariance: when the pass has ended, every returned      *)
(* accumulator equals the value obtained by processing all records of the  *)
(* stream as one chunk, a value that does not depend on chunk_size; so any *)
(* two chunk sizes >= 1 give the same result.                              *)
(***************************************************************************)
C1_ChunkSizeInvariance ==
    pc = "parsed" =>
        LET r == OneChunk
        IN  /\ total_sequences = Len(r.lengths)
            /\ total_length = SeqSum(r.lengths)
            /\ poor_quality_sequences = 0
            /\ lengths = r.lengths
            /\ gc_count = r.chunk_gc_count
            /\ gc_contents = r.gc_contents
            /\ base_counts_by_position = r.base_counts_by_position
            /\ per_read_qualities = r.per_read_qualities
            /\ quality_counts = r.quality_counts

\* a pass of three records with chunk_size 2: one dispatch at capacity, one at the end
C1_Witness ==
    /\ pc = "closed"
    /\ chunk_size = 2
    /\ Len(lengths) = 3
    /\ Len(chunk_sequences) = 1

(***************************************************************************)
(* C2  Malformed-record isolation: when the pass has ended,                *)
(* poor_quality_sequences is the number of groups read that fail           *)
(* validation and total_sequences the number of those that pass it.        *)
(***************************************************************************)
GroupValid(k) ==
    validate_fastq_record(GroupLine(k, 1), GroupLine(k, 2), GroupLine(k, 3), GroupLine(k, 4))

C2_MalformedIsolated ==
    pc = "parsed" =>
        /\ poor_quality_sequences = Cardinality({k \in 1..NumRead : ~GroupValid(k)})
        /\ total_sequences = Cardinality({k \in 1..NumRead : GroupValid(k)})

(***************************************************************************)
(* C3  A partial trailing record is discarded: when the pass has ended,    *)
(* only complete four-line groups are counted in total_sequences, lengths  *)
(* and gc_contents.                                                        *)
(***************************************************************************)
C3_PartialTailDiscarded ==
    pc = "parsed" =>
        /\ total_sequences <= Len(stream) \div 4
        /\ Len(lengths) <= Len(stream) \div 4
        /\ Len(gc_contents) <= Len(stream) \div 4

(***************************************************************************)
(* C4  End of stream: the read loop terminates, and when it has, it has    *)
(* stopped at the first group whose first line is blank or absent: exactly *)
(* the groups in front of it are counted, each once, and the line read     *)
(* last is that first line.                                                *)
(***************************************************************************)
C4_Stopped ==
    /\ pc # "reading"
    /\ total_sequences = NumRead
    /\ lengths = [k \in 1..NumRead |-> Len(GroupLine(k, 2))]
    /\ pos = Min(4 * NumRead + 1, Len(stream)) + 1

C4_EndOfStream == <>[]C4_Stopped

\* the loop stopped at a blank line with unread lines behind it
C4_Witness ==
    /\ pc = "closed"
    /\ total_sequences = 1
    /\ pos <= Len(stream)

(***************************************************************************)
(* C5  Empty-input safety: for a stream with zero records the analysis     *)
(* completes with total_sequences = 0, total_length = 0, empty lengths and *)
(* gc_contents, n50_value = 0, average_length = 0, gc_content = 0 and      *)
(* every numeric quality statistic zero.                                   *)
(***************************************************************************)
C5_EmptyInputSafe ==
    (pc = "done" /\ NumRead = 0) =>
        /\ total_sequences = 0
        /\ total_length = 0
        /\ lengths = << >>
        /\ gc_contents = << >>
        /\ n50_value = 0
        /\ average_length = Zero
        /\ gc_content = Zero
        /\ quality_stats.overall_avg_quality = Zero
        /\ quality_stats.avg_per_read_quality = Zero
        /\ quality_stats.low_quality_percentage = Zero
        /\ quality_stats.high_quality_percentage = Zero
        /\ quality_stats.total_bases = 0
        /\ quality_stats.low_quality_bases = 0

\* the analysis of an empty file has completed
C5_Witness ==
    /\ pc = "done"
    /\ stream = << >>
    /\ total_sequences = 0

(***************************************************************************)
(* C6  N50 correctness: compute_n50_optimized returns 0 for the empty list *)
(* and otherwise the element at the first index of the descending-sorted   *)
(* list at which twice the running sum reaches the sum of all lengths;     *)
(* [1,2,3,4,5] gives 4 and [2,2,2,2] gives 2.                              *)
(***************************************************************************)
\* the i-th largest element of ls, by counting
Kth(ls, i) ==
    CHOOSE v \in {ls[j] : j \in 1..Len(ls)} :
        /\ Cardinality({j \in 1..Len(ls) : ls[j] > v}) < i
        /\ i <= Cardinality({j \in 1..Len(ls) : ls[j] >= v})

\* the sum of the i largest elements of ls
TopSum(ls, i) == SeqSum([j \in 1..i |-> Kth(ls, j)])

C6_N50Correct ==
    pc = "n50_done" =>
        /\ n50_input = << >> => n50_value = 0
        /\ n50_input # << >> =>
             \E i \in 1..Len(n50_input) :
                /\ 2 * TopSum(n50_input, i) >= SeqSum(n50_input)
                /\ \A j \in 1..(i - 1) : 2 * TopSum(n50_input, j) < SeqSum(n50_input)
                /\ n50_value = Kth(n50_input, i)
        /\ n50_input = << 1, 2, 3, 4, 5 >> => n50_value = 4
        /\ n50_input = << 2, 2, 2, 2 >> => n50_value = 2

C6_Witness ==
    /\ pc = "n50_done"
    /\ n50_input = << 1, 2, 3, 4, 5 >>
    /\ n50_value = 4

(***************************************************************************)
(* C7  Quality decoding and histogram: when the pass has ended the         *)
(* histogram holds, for each score s, the number of quality characters of  *)
(* the reads that decode to s = ord(c) - offset (33 under phred33, 64      *)
(* under phred64; 'I' under phred33 is 40), and PerReadQuality holds the   *)
(* mean decoded score of each read with a non-empty quality string.        *)
(***************************************************************************)
ClaimOffset == IF encoding = "phred33" THEN 33 ELSE 64

\* quals: the quality strings of the reads, as a sequence
Decoded(quals, k, i) == Ord(quals[k][i]) - ClaimOffset

QualChars(quals) == {<< k, i >> \in (1..Len(quals)) \X (1..6) : i <= Len(quals[k])}

C7_QualityDecoding ==
    pc = "parsed" =>
        LET quals == ReadQuals \o << >>
            chars == QualChars(quals)
        IN  /\ DOMAIN quality_counts = {Decoded(quals, c[1], c[2]) : c \in chars}
            /\ \A s \in DOMAIN quality_counts :
                  quality_counts[s] =
                      Cardinality({c \in chars : Decoded(quals, c[1], c[2]) = s})
            /\ encoding = "phred33" =>
                  (IF 40 \in DOMAIN quality_counts THEN quality_counts[40] ELSE 0)
                     = Cardinality({c \in chars : quals[c[1]][c[2]] = "I"})
            /\ LET HasQual(k) == quals[k] # << >>
                   reads == SelectSeq([k \in 1..Len(quals) |-> k], HasQual)
               IN  per_read_qualities =
                     [j \in 1..Len(reads) |->
                        Rat(SeqSum([i \in 1..Len(quals[reads[j]]) |->
                                       Decoded(quals, reads[j], i)]),
                            Len(quals[reads[j]]))]

\* a phred64 pass and 'I' characters decoded to 9
C7_Witness ==
    /\ pc = "parsed"
    /\ encoding = "phred64"
    /\ 9 \in DOMAIN quality_counts
    /\ Len(per_read_qualities) >= 2

(***************************************************************************)
(* C8  Quality summary: for a non-empty PerReadQuality of n means,         *)
(* overall_avg_quality is their mean, low_quality_percentage is            *)
(* 100 * #(mean < quality_threshold) / n, high_quality_percentage is       *)
(* 100 * #(mean >= high_quality_threshold) / n, and total_bases = n.       *)
(***************************************************************************)
C8_QualitySummary ==
    (pc = "parsed" /\ per_read_qualities # << >>) =>
        LET n == Len(per_read_qualities)
            total == RatSum(per_read_qualities)
            low == Cardinality({i \in 1..n :
                      per_read_qualities[i].n < quality_threshold * per_read_qualities[i].d})
            high == Cardinality({i \in 1..n :
                      per_read_qualities[i].n >= high_quality_threshold * per_read_qualities[i].d})
        IN  /\ quality_stats.overall_avg_quality.n * total.d * n
                 = total.n * quality_stats.overall_avg_quality.d
            /\ quality_stats.low_quality_percentage.n * n
                 = 100 * low * quality_stats.low_quality_percentage.d
            /\ quality_stats.high_quality_percentage.n * n
                 = 100 * high * quality_stats.high_quality_percentage.d
            /\ quality_stats.total_bases = n

\* two reads, one with its mean at the low threshold and one at the high threshold
C8_Witness ==
    /\ pc = "parsed"
    /\ Len(per_read_qualities) = 2
    /\ quality_stats.low_quality_percentage = Zero
    /\ quality_stats.high_quality_percentage = Rat(50, 1)
    /\ \E i \in 1..2 : per_read_qualities[i] = Rat(quality_threshold, 1)
    /\ \E i \in 1..2 : per_read_qualities[i] = Rat(high_quality_threshold, 1)

(***************************************************************************)
(* C9  Output structure of quality_stats: for every input the returned     *)
(* quality_stats has the seven fields overall_avg_quality,                 *)
(* avg_per_read_quality, low_quality_percentage, high_quality_percentage,  *)
(* total_bases, low_quality_bases and quality_counts.                      *)
(***************************************************************************)
C9_SevenFields ==
    pc = "parsed" =>
        DOMAIN quality_stats =
            { "overall_avg_quality", "avg_per_read_quality", "low_quality_percentage",
              "high_quality_percentage", "total_bases", "low_quality_bases",
              "quality_counts" }

(***************************************************************************)
(* C10  Per-base normalization: in the returned table each of %A, %T, %G,  *)
(* %C at position p is 100 * (reads with that base at p) / (reads that     *)
(* reach p); the four columns sum to 100 when no read has a base other     *)
(* than A, T, G, C at p, and to less than 100 exactly when some read has.  *)
(***************************************************************************)
\* seqs: the sequences of the reads, as a sequence
Reaching(seqs, p) == {k \in 1..Len(seqs) : Len(seqs[k]) > p}

BaseAt(seqs, p, base) == Cardinality({k \in Reaching(seqs, p) : seqs[k][p + 1] = base})

Ambiguous(seqs, p) ==
    \E k \in Reaching(seqs, p) : seqs[k][p + 1] \notin {"A", "T", "G", "C"}

RowSum(row) == RatAdd(RatAdd(row.A, row.T), RatAdd(row.G, row.C))

C10_PerBaseNormalized ==
    pc = "parsed" =>
        LET seqs == ReadSeqs \o << >>
        IN  \A p \in 0..(Len(per_base_content) - 1) :
            LET row == per_base_content[p + 1]
                reach == Cardinality(Reaching(seqs, p))
                ambiguous == Ambiguous(seqs, p)
            IN  /\ reach > 0
                /\ row.A.n * reach = 100 * BaseAt(seqs, p, "A") * row.A.d
                /\ row.T.n * reach = 100 * BaseAt(seqs, p, "T") * row.T.d
                /\ row.G.n * reach = 100 * BaseAt(seqs, p, "G") * row.G.d
                /\ row.C.n * reach = 100 * BaseAt(seqs, p, "C") * row.C.d
                /\ ~ambiguous => RowSum(row) = Rat(100, 1)
                /\ ambiguous <=> RatLt(RowSum(row), Rat(100, 1))

\* a table with a position where one read of two has an ambiguous base
C10_Witness ==
    /\ pc = "parsed"
    /\ Len(per_base_content) >= 2
    /\ Cardinality(Reaching(ReadSeqs, 1)) = 2
    /\ RowSum(per_base_content[2]) = Rat(50, 1)

(***************************************************************************)
(* C11  Shape of per_base_content: without skip_perbase the returned table *)
(* has exactly one row for each position 0..L-1, L being the length of the *)
(* longest sequence read (no row when L = 0); with skip_perbase the table  *)
(* is empty.                                                               *)
(***************************************************************************)
\* the length of the longest of the sequences seqs, 0 when there is none
Longest(seqs) ==
    IF seqs = << >> THEN 0
    ELSE CHOOSE n \in {Len(seqs[k]) : k \in 1..Len(seqs)} :
             \A k \in 1..Len(seqs) : Len(seqs[k]) <= n

C11_PerBaseShape ==
    pc = "parsed" =>
        IF skip_perbase THEN per_base_content = << >>
        ELSE DOMAIN per_base_content = 1..Longest(ReadSeqs \o << >>)

\* a table of six rows after a six-base read followed by a three-base read
C11_Witness ==
    /\ pc = "parsed"
    /\ ~skip_perbase
    /\ NumRead = 2
    /\ Len(ReadSeqs[1]) = 6
    /\ Len(ReadSeqs[2]) = 3
    /\ Len(per_base_content) = 6

(***************************************************************************)
(* C12  Skip option: when skip_perbase is true the per-base accumulator is *)
(* not invoked, so base_counts_by_position is empty from the start of the  *)
(* pass to its end.                                                        *)
(***************************************************************************)
C12_AccumulatorSkipped == skip_perbase => base_counts_by_position = << >>

(***************************************************************************)
(* C13  Threshold pre-flight check: on every entry path (command line, web *)
(* upload and API handlers, direct call) a configuration with              *)
(* quality_threshold >= high_quality_threshold is rejected before the      *)
(* stream is opened or any line is read.                                   *)
(***************************************************************************)
C13_ThresholdPreflight ==
    quality_threshold >= high_quality_threshold =>
        /\ pc \in {"entry", "rejected"}
        /\ ~file_open
        /\ pos = 1

(***************************************************************************)
(* C14  Encoding pre-flight check: an encoding other than 'phred33' or     *)
(* 'phred64' is rejected before reading begins; no pass decodes quality    *)
(* characters under an unrecognized encoding.                              *)
(***************************************************************************)
C14_EncodingPreflight ==
    encoding \notin {"phred33", "phred64"} =>
        /\ pc \in {"entry", "rejected"}
        /\ ~file_open
        /\ per_read_qualities = << >>

(***************************************************************************)
(* C15  Chunk-size pre-flight check: a negative chunk_size is rejected     *)
(* before reading begins; no pass reads a record with chunk_size < 0.      *)
(***************************************************************************)
C15_ChunkSizePreflight ==
    chunk_size < 0 =>
        /\ pc \in {"entry", "rejected"}
        /\ ~file_open
        /\ total_sequences = 0

(***************************************************************************)
(* C16  Per-record GC: the GC count of a record is the number of uppercase *)
(* 'G' and 'C' characters of its sequence (lowercase is not counted); its  *)
(* gc_contents entry is 100 * gc / len for a non-empty sequence and 0 for  *)
(* an empty one, which still counts in total_sequences.  "GGCCAT" has GC   *)
(* count 4 of length 6.                                                    *)
(***************************************************************************)
RecordGC(seq) == Cardinality({i \in 1..Len(seq) : seq[i] \in {"G", "C"}})

C16_PerRecordGC ==
    pc = "parsed" =>
        LET seqs == ReadSeqs \o << >>
        IN  /\ total_sequences = Len(seqs)
            /\ Len(gc_contents) = Len(seqs)
            /\ \A k \in 1..Len(seqs) :
                  LET n == Len(seqs[k])
                  IN  /\ n = 0 => gc_contents[k] = [n |-> 0, d |-> 1]
                      /\ n > 0 =>
                            /\ gc_contents[k].d > 0
                            /\ gc_contents[k].n * n
                                  = 100 * RecordGC(seqs[k]) * gc_contents[k].d
                      /\ seqs[k] = <<"G", "G", "C", "C", "A", "T">> =>
                            gc_contents[k] = [n |-> 200, d |-> 3]

\* an empty sequence, a sequence with a lowercase g, and GGCCAT in one pass
C16_Witness ==
    /\ pc = "parsed"
    /\ total_sequences = 3
    /\ ReadSeqs = << << >>, <<"A", "N", "g">>, <<"G", "G", "C", "C", "A", "T">> >>
    /\ gc_contents = << [n |-> 0, d |-> 1], [n |-> 0, d |-> 1], [n |-> 200, d |-> 3] >>

(***************************************************************************)
(* C17  Length and GC totals: at the end of the pass total_sequences is    *)
(* the number of records read, total_length the sum of their sequence      *)
(* lengths, lengths the list of those lengths in stream order, gc_contents *)
(* has one entry per record, and gc_count is the sum of the per-record GC  *)
(* counts.                                                                 *)
(***************************************************************************)
\* the sum of the numbers of a sequence
RECURSIVE Total(_)
Total(ns) == IF ns = << >> THEN 0 ELSE ns[1] + Total(Tail(ns))

C18_HandleReleased == file_open => pc = "reading"

\* a read error after at least one record has been read
C18_Witness ==
    /\ pc = "raised"
    /\ pos > 1
    /\ ~file_open
    /\ lengths = << >>
    /\ chunk_sequences # << >>

(***************************************************************************)
(* C19  Per-base counts: whenever the accumulator has processed a set of   *)
(* records, at every position p the five counts A, T, G, C, N sum to the   *)
(* number of processed sequences longer than p, and every base that is not *)
(* exactly 'A', 'T', 'G' or 'C' (lowercase included) is counted under N.   *)
(***************************************************************************)
ProcessedAt(p) == {k \in 1..Len(lengths) : Len(GroupLine(k, 2)) > p}

ProcessedPositions == UNION { 0..(Len(GroupLine(k, 2)) - 1) : k \in 1..Len(lengths) }

C19_PerBaseCounts ==
    pc \in {"reading", "closed"} =>
        /\ DOMAIN base_counts_by_position = ProcessedPositions
        /\ \A p \in ProcessedPositions :
              LET c == base_counts_by_position[p]
              IN  /\ c.A + c.T + c.G + c.C + c.N = Cardinality(ProcessedAt(p))
                  /\ c.N = Cardinality({k \in ProcessedAt(p) :
                               GroupLine(k, 2)[p + 1] \notin {"A", "T", "G", "C"}})

\* in the middle of a pass, two processed records of which one has a lowercase
\* base at position 2
C19_Witness ==
    /\ pc = "reading"
    /\ pos <= Len(stream)
    /\ Len(lengths) = 2
    /\ 2 \in DOMAIN base_counts_by_position
    /\ base_counts_by_position[2].N = 1
    /\ base_counts_by_position[2].G = 1

(***************************************************************************)
(* C20  Empty quality string: a record whose quality line is empty causes  *)
(* no division error, adds no per-read quality and leaves the histogram    *)
(* unchanged, while its sequence still counts in total_sequences, lengths  *)
(* and gc_contents; the number of per-read qualities is the number of      *)
(* records with a non-empty quality string.                                *)
(***************************************************************************)
RECURSIVE HistogramTotal(_)
HistogramTotal(qc) ==
    IF DOMAIN qc = {} THEN 0
    ELSE LET s == CHOOSE x \in DOMAIN qc : TRUE
         IN  qc[s] + HistogramTotal([x \in (DOMAIN qc) \ {s} |-> qc[x]])

C20_EmptyQualitySkipped ==
    pc = "parsed" =>
        LET quals == ReadQuals \o << >>
        IN  /\ Len(per_read_qualities) =
                   Cardinality({k \in 1..Len(quals) : quals[k] # << >>})
            /\ HistogramTotal(quality_counts)
                   = Total([k \in 1..Len(quals) |-> Len(quals[k])])
            /\ total_sequences = Len(quals)
            /\ Len(lengths) = Len(quals)
            /\ Len(gc_contents) = Len(quals)

\* a record with bases and no quality string after a record with both
C20_Witness ==
    /\ pc = "parsed"
    /\ NumRead = 2
    /\ ReadQuals[1] # << >>
    /\ ReadSeqs[2] # << >>
    /\ ReadQuals[2] = << >>
    /\ Len(per_read_qualities) = 1
    /\ lengths = << Len(ReadSeqs[1]), Len(ReadSeqs[2]) >>

(***************************************************************************)
(* C21  N50 characterization: for every non-empty list of non-negative     *)
(* lengths the returned value v is an element of the list, the sequences   *)
(* of length >= v cover at least 50% of the sum of all lengths, and the    *)
(* sequences of length > v cover less than 50% of it.                      *)
(***************************************************************************)
\* the sum of the elements of ls that are >= v (strict = FALSE) or > v
RECURSIVE CoverFrom(_, _, _)
CoverFrom(ls, v, strict) ==
    IF ls = << >> THEN 0
    ELSE (IF (IF strict THEN ls[1] > v ELSE ls[1] >= v) THEN ls[1] ELSE 0)
         + CoverFrom(Tail(ls), v, strict)

C21_N50Characterization ==
    (pc = "n50_done" /\ n50_input # << >>) =>
        LET total == CoverFrom(n50_input, 0, FALSE)
        IN  /\ \E j \in 1..Len(n50_input) : n50_input[j] = n50_value
            /\ 2 * CoverFrom(n50_input, n50_value, FALSE) >= total
            /\ 2 * CoverFrom(n50_input, n50_value, TRUE) < total

\* the same, the strict half required only of lists whose sum is positive; a
\* list of zeros gives 0
C21_N50CharacterizationPositive ==
    (pc = "n50_done" /\ n50_input # << >>) =>
        LET total == CoverFrom(n50_input, 0, FALSE)
        IN  /\ \E j \in 1..Len(n50_input) : n50_input[j] = n50_value
            /\ 2 * CoverFrom(n50_input, n50_value, FALSE) >= total
            /\ total > 0 => 2 * CoverFrom(n50_input, n50_value, TRUE) < total
            /\ total = 0 => n50_value = 0

\* a list with a tie at the returned value: 2 + 2 covers 4 of 5, nothing is longer
C21_Witness ==
    /\ pc = "n50_done"
    /\ n50_input = << 2, 1, 2 >>
    /\ n50_value = 2

(***************************************************************************)
(* C22  Barrier ordering: the quality summary finalizer and the N50        *)
(* computation run only after the stream is exhausted and every chunk, the *)
(* final partial one included, has been dispatched; when either of them    *)
(* runs the chunk buffer is empty and every counted record has contributed *)
(* to lengths, the per-read qualities and the histogram.                   *)
(***************************************************************************)
\* pc = "closed" is where the finalizer runs, pc = "parsed" where N50 runs
C22_BarrierOrdering ==
    pc \in {"closed", "parsed"} =>
        /\ ~file_open
        /\ Len(lengths) = total_sequences
        /\ Len(per_read_qualities) <= total_sequences
        /\ chunk_sequences = << >>
        /\ chunk_qualities = << >>

(***************************************************************************)
(* C23  Chunk dispatch: for chunk_size >= 1 the chunk buffer is dispatched *)
(* exactly when it reaches chunk_size records or when the stream ends with *)
(* a non-empty buffer; it is emptied after each capacity dispatch, an      *)
(* empty buffer is never dispatched, and the buffer never holds more than  *)
(* chunk_size records.                                                     *)
(***************************************************************************)
\* one step of the pass; a dispatch shows as new entries of lengths
C23_Step ==
    LET dispatched == Len(lengths') - Len(lengths)
        read == total_sequences' = total_sequences + 1
        full == read /\ Len(chunk_sequences) + 1 >= chunk_size
        ended == pc = "reading" /\ pc' = "closed"
    IN  /\ Len(chunk_sequences) <= chunk_size
        /\ Len(chunk_sequences') <= chunk_size
        /\ dispatched > 0 <=> (full \/ (ended /\ chunk_sequences # << >>))
        /\ full => /\ dispatched = chunk_size
                   /\ chunk_sequences' = << >>
                   /\ chunk_qualities' = << >>
        /\ (read /\ ~full) => chunk_sequences' # << >>
        /\ (ended /\ chunk_sequences # << >>) => dispatched = Len(chunk_sequences)

C23_ChunkDispatch == [][C23_Step]_vars

\* right after a capacity dispatch of two records, with more of the stream to read
C23_Witness ==
    /\ pc = "reading"
    /\ chunk_size = 2
    /\ total_sequences = 2
    /\ Len(lengths) = 2
    /\ chunk_sequences = << >>
    /\ pos <= Len(stream)

(***************************************************************************)
(* C24  Running totals are monotone: in every step of the pass             *)
(* total_sequences, total_length and gc_count never decrease, and none of  *)
(* them changes once the stream is exhausted and the final chunk has been  *)
(* dispatched.                                                             *)
(***************************************************************************)
C24_Step ==
    /\ total_sequences' >= total_sequences
    /\ total_length' >= total_length
    /\ gc_count' >= gc_count
    /\ pc \in {"closed", "parsed", "done"} =>
          UNCHANGED << total_sequences, total_length, gc_count >>

C24_MonotoneTotals == [][C24_Step]_vars

\* the end of an analysis whose totals grew over three records
C24_Witness ==
    /\ pc = "done"
    /\ total_sequences = 3
    /\ total_length > 0
    /\ gc_count > 0

(***************************************************************************)
(* C26  The two N50 implementations agree: for every list of non-negative  *)
(* integer lengths (the empty list, lists with repeated values and lists   *)
(* whose sum is 0 included) compute_n50 and compute_n50_optimized return   *)
(* the same value, and neither reaches its fall-through return of the      *)
(* smallest element.                                                       *)
(***************************************************************************)
C26_N50ImplementationsAgree ==
    pc = "n50_both" =>
        /\ n50_plain = n50_value
        /\ n50_branch_optimized \in {"empty", "found"}
        /\ n50_branch_plain \in {"empty", "found"}
        /\ n50_input = << >> <=> n50_branch_plain = "empty"
        /\ n50_input = << >> <=> n50_branch_optimized = "empty"

\* both functions called on a list of repeated zeros
C26_Witness ==
    /\ pc = "n50_both"
    /\ n50_input = << 0, 0 >>
    /\ n50_plain = 0
    /\ n50_value = 0
    /\ n50_branch_plain = "found"
    /\ n50_branch_optimized = "found"


(***************************************************************************)
(* C25: the cleanup removes only expired entries.  On every run of the     *)
(* cleanup, an upload file it removes and an output directory it removes   *)
(* are older than 2 hours; the upload file of an analysis that is running  *)
(* and the output directory of an analysis started less than 2 hours ago   *)
(* stay in place.                                                          *)
(***************************************************************************)
CleanupRan == cleanup_due' # cleanup_due

C25_Step ==
    CleanupRan =>
        \A r \in Requests :
            /\ (upload_mtime[r] # NoFile /\ upload_mtime'[r] = NoFile)
                   => now - upload_mtime[r] > 2
            /\ (output_dir[r] /\ ~output_dir'[r]) => now - started[r] > 2
            /\ (handler[r] = "saved" /\ now - upload_mtime[r] <= 2)
                   => upload_mtime'[r] = upload_mtime[r]
            /\ (started[r] # NoFile /\ now - started[r] < 2)
                   => output_dir'[r] = output_dir[r]

C25_CleanupOnlyExpired == [][C25_Step]_vars


(***************************************************************************)
(* C27: record conservation during the pass.  After each iteration of the  *)
(* read loop, the one that meets the end of the stream included, the       *)
(* records counted are those dispatched plus those in the chunk buffer:    *)
(* total_sequences = len(lengths) + buffered records, len(gc_contents) =   *)
(* len(lengths), total_length = sum(lengths) + buffered lengths, and       *)
(* gc_count is the GC total of the dispatched records only.                *)
(***************************************************************************)
RECURSIVE BufferedLength(_)
BufferedLength(seqs) ==
    IF seqs = << >> THEN 0 ELSE Len(seqs[1]) + BufferedLength(Tail(seqs))

RECURSIVE DispatchedGC(_, _)
DispatchedGC(seqs, k) ==
    IF k = 0 THEN 0 ELSE SeqGC(seqs[k]) + DispatchedGC(seqs, k - 1)

Conservation(seqs) ==
    /\ total_sequences = Len(lengths) + Len(chunk_sequences)
    /\ Len(gc_contents) = Len(lengths)
    /\ total_length = SeqSum(lengths) + BufferedLength(chunk_sequences)
    /\ Len(lengths) <= Len(seqs)
    /\ gc_count = DispatchedGC(seqs, Len(lengths))

C27_RecordConservation ==
    pc \in {"reading", "closed"} => LET seqs == ReadSeqs \o << >> IN Conservation(seqs)


(***************************************************************************)
(* C28: quality classes are disjoint.  When quality_threshold is below     *)
(* high_quality_threshold, the returned low_quality_percentage and         *)
(* high_quality_percentage add up to at most 100, each of them lies in     *)
(* 0..100, and low_quality_bases <= total_bases <= total_sequences.        *)
(***************************************************************************)
InPercentRange(x) == x.d > 0 /\ 0 <= x.n /\ x.n <= 100 * x.d

C28_QualityClassesDisjoint ==
    (pc = "parsed" /\ quality_threshold < high_quality_threshold) =>
        LET low == quality_stats.low_quality_percentage
            high == quality_stats.high_quality_percentage
        IN  /\ InPercentRange(low)
            /\ InPercentRange(high)
            /\ low.n * high.d + high.n * low.d <= 100 * low.d * high.d
            /\ 0 <= quality_stats.low_quality_bases
            /\ quality_stats.low_quality_bases <= quality_stats.total_bases
            /\ quality_stats.total_bases <= total_sequences

\* two reads, one in the low class and one in the high class
C28_Witness ==
    /\ pc = "parsed"
    /\ quality_threshold < high_quality_threshold
    /\ total_sequences = 2
    /\ quality_stats.total_bases = 2
    /\ quality_stats.low_quality_bases = 1
    /\ quality_stats.high_quality_percentage = Rat(50, 1)


(***************************************************************************)
(* C29: length filters and subsampling affect only the length list.  The   *)
(* step of analyze_fastq after the parse leaves total_sequences,           *)
(* total_length, gc_contents, quality_stats and the parsed lengths as the  *)
(* pass returned them, whatever min_length, max_length and subsample are;  *)
(* average_length and gc_content are computed from the unfiltered totals;  *)
(* the list used for n50_value holds only parsed lengths; and with         *)
(* min_length = 0, no max_length, no subsample and skip_n50 false,         *)
(* n50_value is the N50 of the lengths of all parsed records.              *)
(***************************************************************************)
\* every value occurs in sub at most as often as in ls
SubBag(sub, ls) ==
    \A v \in {sub[i] : i \in 1..Len(sub)} :
        Cardinality({i \in 1..Len(sub) : sub[i] = v})
            <= Cardinality({i \in 1..Len(ls) : ls[i] = v})

\* v is the N50 of ls: an element from which on the lengths cover half the
\* total, while the longer ones do not
IsN50(ls, v) ==
    LET total == CoverFrom(ls, 0, FALSE)
    IN  IF total = 0 THEN v = 0
        ELSE /\ \E j \in 1..Len(ls) : ls[j] = v
             /\ 2 * CoverFrom(ls, v, FALSE) >= total
             /\ 2 * CoverFrom(ls, v, TRUE) < total

C29_Step ==
    (pc = "parsed" /\ pc' = "done") =>
        /\ total_sequences' = total_sequences
        /\ total_length' = total_length
        /\ gc_count' = gc_count
        /\ gc_contents' = gc_contents
        /\ quality_stats' = quality_stats
        /\ lengths' = lengths
        /\ IF total_sequences > 0
           THEN average_length'.n * total_sequences = total_length * average_length'.d
           ELSE average_length' = Zero
        /\ IF total_length > 0
           THEN gc_content'.n * total_length = 100 * gc_count * gc_content'.d
           ELSE gc_content' = Zero
        /\ SubBag(filtered_lengths', lengths)
        /\ analysis_args' = [min_length |-> 0, max_length |-> 0, subsample |-> 0,
                             skip_n50 |-> FALSE]
               => filtered_lengths' = lengths /\ IsN50(lengths, n50_value')

Returns(r) == handler[r] \in {"saved", "analyzed"} /\ handler'[r] = "returned"

C30_Step ==
    \A r \in Requests :
        Returns(r) =>
            /\ upload_mtime'[r] = NoFile
            /\ response'[r] \in {200, 500}
            /\ response'[r] = 500 => ~output_dir'[r]
            /\ response'[r] = 200 => output_dir'[r]

C30_UploadCleanup == [][C30_Step]_vars

====
